---- MODULE Spec2Model ----
(***************************************************************************)
(* Model of the io2 executor (src/io2/src/executor.rs): the scheduler loop *)
(* of `run`, the ambient CurrentTaskContext operations a polled task may   *)
(* call, the two io_uring rings as seen through try_submit_io and the      *)
(* completion drain, the deadline set and the deferred-close queue.        *)
(*                                                                         *)
(* Time is kept relative to the clock: `elapsed` is Instant::now() - start *)
(* for the running iteration and every deadline is stored as (when - now). *)
(* Option<T> is modelled as a sequence of length 0 (None) or 1 (Some).     *)
(***************************************************************************)
EXTENDS Integers, Sequences, FiniteSets, Bags, TLC

\* ---- bounds of the model ------------------------------------------------
MaxTasks == 3          \* task ids handed out by the task slab: 0 .. MaxTasks-1
MaxIo == 1             \* io ids handed out by queue_io: 1 .. MaxIo
MaxFiles == 1          \* File values dropped during the run
MaxTimers == 1         \* length of the deadline set
MaxAhead == 0          \* how far ahead of the clock a deadline is registered
RingDepth == 1         \* ring_depth: capacity of a ring's submission region
PreemptDuration == 1   \* preempt_duration, in clock ticks
MaxScratch == 2        \* length the scratch list `notifying` may grow to
MaxScratchJoin == 4    \* the same length in the spawn-and-join scenario
MaxTimersWide == 3     \* deadlines held at once by the tasks that only wait
MaxAheadWide == 1      \* ticks a deadline of such a task may lie ahead
MaxIoWide == 2         \* io ids handed out in the I/O scenario: 1 .. MaxIoWide
MaxIters == 6          \* loop iterations counted in the yield-loop scenario

\* ---- program constants --------------------------------------------------
IdleBudget == 16       \* `for _ in 0..16` of the idle wait
CloseFileTaskId == 0   \* first key of the task slab: the close-handler task
CloseFileIoId == 0     \* first key of the io slab: the reserved close io-id
RootTaskId == 1        \* second key of the task slab: the root task
YieldCount == 5        \* `for _ in 0..5 { YieldIfNeeded.await }` of test_spawn
ChildA == 2            \* key of handle1's task: third key of the task slab
ChildB == 3            \* key of handle2's task: fourth key of the task slab
LeafOps == 3           \* leaf operations of fs::file::tests::smoke_test

Values == {1, 2}       \* outputs a spawned future may return
RootValues == {0}      \* output of the root future (0 in tests::test_spawn)
Results == {-1, 1}     \* cqe.result(): a negated errno or a success value

VARIABLES
    pc,               \* position of `run`: top, idle, ready, pop, polling,
                      \* submit, drain, timers, close, done, panicked
    ctx,              \* CURRENT_TASK_CONTEXT: <<>> or <<task_id>>
    out,              \* root-output slot `out`: <<>> or <<value>>
    ret,              \* value returned by run: <<>> until it returns
    tasks,            \* keys present in the task slab
    next_task,        \* next key the task slab hands out
    parent,           \* child task id -> caller_task_id captured by spawn
    join_out,         \* child task id -> shared slot of its JoinHandle
    io,               \* io slab: io id -> owning task id
    next_io,          \* next key the io slab hands out
    io_results,       \* io id -> result posted and not yet taken
    io_queue,         \* in-memory queue of the buffered ring (user_data)
    dio_queue,        \* in-memory queue of the direct ring
    sq,               \* submission region of the buffered ring
    dio_sq,           \* submission region of the direct ring
    inflight,         \* bag of user_data submitted to the buffered ring
    dio_inflight,     \* bag of user_data submitted to the direct ring
    dio_done,         \* direct operations the device finished, not yet reaped
    cq,               \* completion queue of the buffered ring: <<id, res>>
    dio_cq,           \* completion queue of the direct ring
    cq_seen,          \* length of cq at the idle wait's last sync
    to_notify,        \* ready set
    notifying,        \* scratch list of the drain
    notify_when,      \* deadline set: [timer, task_id], timer holds when - now
    num_dio_running,  \* direct in-flight counter
    files_closing,    \* pending-close counter
    files_to_close,   \* FILES_TO_CLOSE
    next_fd,          \* next fd a dropped File carries
    elapsed,          \* Instant::now() - start while the drain runs, saturating
    idle_i,           \* pass counter of the idle wait's for loop
    hist              \* history: child_ret what each child's future returned,
                      \* join_got what each JoinHandle delivered, dio_queued
                      \* and dio_drained the direct intents queued and the
                      \* direct completions drained, owed the io ids handed
                      \* out whose result was not taken yet (with the task
                      \* that queued them), broken whether a task returned
                      \* Ready while it was owed a result, fired whether the
                      \* latest notify_timers call moved a deadline to the
                      \* ready set, panic the origin of the panic that left
                      \* run, close_queued and close_drained the close
                      \* submissions enqueued and the close completions
                      \* drained, iters the loop iterations started and
                      \* yields the awaits of the yield primitive the root
                      \* completed (both counted in the yield-loop scenario)

vars == <<pc, ctx, out, ret, tasks, next_task, parent, join_out, io, next_io,
          io_results, io_queue, dio_queue, sq, dio_sq, inflight, dio_inflight,
          dio_done, cq, dio_cq, cq_seen, to_notify, notifying, notify_when,
          num_dio_running, files_closing, files_to_close, next_fd, elapsed,
          idle_i, hist>>

\* ---- small helpers ------------------------------------------------------
Min(a, b) == IF a < b THEN a ELSE b
Max(a, b) == IF a > b THEN a ELSE b
Range(s) == {s[i] : i \in DOMAIN s}
Put(f, k, v) == [x \in (DOMAIN f) \cup {k} |-> IF x = k THEN v ELSE f[x]]
Drop(f, k) == [x \in (DOMAIN f) \ {k} |-> f[x]]
EmptyMap == [x \in {} |-> 0]
SeqToBag(s) == [x \in Range(s) |-> Cardinality({i \in DOMAIN s : s[i] = x})]
Front(s) == SubSeq(s, 1, Len(s) - 1)
Last(s) == s[Len(s)]
\* every order in which the keys of a keyed map may be iterated
Orderings(S) ==
    {s \in [1 .. Cardinality(S) -> S] : \A i, j \in 1 .. Cardinality(S) : s[i] = s[j] => i = j}
\* Vec::swap_remove(i): the last element takes the place of element i
SwapRemove(s, i) ==
    IF i = Len(s) THEN Front(s)
    ELSE SubSeq(s, 1, i - 1) \o <<s[Len(s)]>> \o SubSeq(s, i + 1, Len(s) - 1)

\* ---- slab and keyed map -------------------------------------------------
\* Slab::insert: the key handed out; keys are not reused within a run.
SlabInsert(next) == next

\* VecMap::iter_keys: the keys in some order.
IterKeys(S) == Orderings(S)

\* ---- deadline set -------------------------------------------------------
EmptyNotifyWhen == [timer |-> <<>>, task_id |-> <<>>]

\* a comparison that also fires a deadline equal to the clock reading
TimerKeptStrict(timer) == timer > 0

\* `timer >= time`: the deadline is not strictly in the past and is kept
TimerKept(timer) == timer >= 0

\* a removal that closes the gap in the task ids instead of swapping
RemoveEntryShift(nw, i) ==
    [timer |-> SwapRemove(nw.timer, i),
     task_id |-> SubSeq(nw.task_id, 1, i - 1)
                   \o SubSeq(nw.task_id, i + 1, Len(nw.task_id))]

\* `notify_when.timer.swap_remove(i); notify_when.task_id.swap_remove(i)`
RemoveEntry(nw, i) ==
    [timer |-> SwapRemove(nw.timer, i), task_id |-> SwapRemove(nw.task_id, i)]

RECURSIVE NotifyTimersFrom(_, _, _)
NotifyTimersFrom(nw, tn, i) ==
    IF i > Len(nw.timer) THEN [notify_when |-> nw, to_notify |-> tn]
    ELSE IF TimerKept(nw.timer[i]) THEN NotifyTimersFrom(nw, tn, i + 1)
    ELSE NotifyTimersFrom(RemoveEntry(nw, i), tn \cup {nw.task_id[i]}, i)

\* notify_timers: moves every deadline strictly before the clock reading
\* into the ready set.
NotifyTimers(nw, tn) == NotifyTimersFrom(nw, tn, 1)

\* ---- try_submit_io ------------------------------------------------------
\* A ring as try_submit_io sees it: q the in-memory queue, s the submission
\* region, fl the operations the kernel holds, done/c the direct ring's
\* finished operations and completion queue, st "run" or "panic".
SubmitOutcomes == {"ok", "busy", "err"}

\* a submit for which the busy error is fatal like any other
RingSubmitBusyFatal(r, iopoll, outcome) ==
    CASE outcome = "ok" ->
           [r EXCEPT !.fl = r.fl (+) SeqToBag(r.s), !.s = <<>>,
                     !.c = IF iopoll THEN r.c \o r.done ELSE r.c,
                     !.done = IF iopoll THEN <<>> ELSE r.done]
      [] OTHER -> [r EXCEPT !.st = "panic"]

\* submitter.submit(): Ok hands the submission region to the kernel (and, on
\* the polled ring, reaps what the device finished); EBUSY changes nothing;
\* any other error panics.
RingSubmit(r, iopoll, outcome) ==
    CASE outcome = "ok" ->
           [r EXCEPT !.fl = r.fl (+) SeqToBag(r.s), !.s = <<>>,
                     !.c = IF iopoll THEN r.c \o r.done ELSE r.c,
                     !.done = IF iopoll THEN <<>> ELSE r.done]
      [] outcome = "busy" -> r
      [] OTHER -> [r EXCEPT !.st = "panic"]

\* a push that takes the entry from the back of the in-memory queue
RingPushBack(r) == [r EXCEPT !.s = Append(r.s, Last(r.q)), !.q = Front(r.q)]

\* `io_queue.pop_front()` and `sq.push(&entry)`
RingPush(r) == [r EXCEPT !.s = Append(r.s, Head(r.q)), !.q = Tail(r.q)]

RECURSIVE TrySubmitLoop(_, _)
TrySubmitLoop(r, iopoll) ==
    IF r.q = <<>> THEN {r}
    ELSE IF Len(r.s) >= RingDepth
    THEN TrySubmitLoop(RingPush(RingSubmit(r, iopoll, "ok")), iopoll)
         \cup {RingSubmit(r, iopoll, "busy"), RingSubmit(r, iopoll, "err")}
    ELSE TrySubmitLoop(RingPush(r), iopoll)

TrySubmitIo(r, iopoll, force_submit) ==
    UNION {IF r1.st = "run" /\ (force_submit \/ r1.s # <<>>)
           THEN {RingSubmit(r1, iopoll, o) : o \in SubmitOutcomes}
           ELSE {r1} : r1 \in TrySubmitLoop(r, iopoll)}

BufRing == [q |-> io_queue, s |-> sq, fl |-> inflight, done |-> <<>>,
            c |-> cq, st |-> "run"]
DioRing == [q |-> dio_queue, s |-> dio_sq, fl |-> dio_inflight,
            done |-> dio_done, c |-> dio_cq, st |-> "run"]

\* ---- completion drain ---------------------------------------------------
\* a drain without the branch for the reserved close io-id
DrainOneNoClose(d, cqe) ==
    IF d.st # "run" THEN d
    ELSE IF cqe[1] \notin DOMAIN io THEN [d EXCEPT !.st = "lookup"]
    ELSE [d EXCEPT !.io_results = Put(d.io_results, cqe[1], cqe[2]),
                   !.to_notify = d.to_notify \cup {io[cqe[1]]}]

\* a drain that stores the result and leaves the owner out of the ready set
DrainOneNoNotify(d, cqe) ==
    IF d.st # "run" THEN d
    ELSE IF cqe[1] = CloseFileIoId
    THEN IF d.files_closing = 0 THEN [d EXCEPT !.st = "underflow"]
         ELSE [d EXCEPT !.files_closing = d.files_closing - 1]
    ELSE IF cqe[1] \notin DOMAIN io THEN [d EXCEPT !.st = "lookup"]
    ELSE [d EXCEPT !.io_results = Put(d.io_results, cqe[1], cqe[2])]

\* One pass of `for cqe in cq.chain(dio_cq)` over state
\* d = [io_results, to_notify, files_closing, st].
DrainOne(d, cqe) ==
    IF d.st # "run" THEN d
    ELSE IF cqe[1] = CloseFileIoId
    THEN IF d.files_closing = 0 THEN [d EXCEPT !.st = "underflow"]
         ELSE [d EXCEPT !.files_closing = d.files_closing - 1]
    ELSE IF cqe[1] \notin DOMAIN io THEN [d EXCEPT !.st = "lookup"]
    ELSE [d EXCEPT !.io_results = Put(d.io_results, cqe[1], cqe[2]),
                   !.to_notify = d.to_notify \cup {io[cqe[1]]}]

\* `cq.chain(dio_cq)`: the buffered ring's completions, then the direct ring's
DrainOrder(buffered, direct) == buffered \o direct

RECURSIVE DrainAll(_, _)
DrainAll(d, cqes) ==
    IF cqes = <<>> THEN d ELSE DrainAll(DrainOne(d, Head(cqes)), Tail(cqes))

\* ---- construction -------------------------------------------------------
EmptyHist == [child_ret |-> EmptyMap, join_got |-> EmptyMap,
              dio_queued |-> 0, dio_drained |-> 0, owed |-> EmptyMap,
              broken |-> FALSE, fired |-> FALSE, panic |-> "none",
              close_queued |-> 0, close_drained |-> 0,
              iters |-> 0, yields |-> 0,
              snapshot |-> {}, polled |-> {}, reported |-> EmptyMap,
              passes |-> 0, fut |-> <<>>, leaf_out |-> <<>>,
              join_by |-> EmptyMap]

Init ==
    /\ pc = "top"
    /\ ctx = <<>>
    /\ out = <<>>
    /\ ret = <<>>
    /\ tasks = {CloseFileTaskId, RootTaskId}
    /\ next_task = RootTaskId + 1
    /\ parent = EmptyMap
    /\ join_out = EmptyMap
    /\ io = [x \in {CloseFileIoId} |-> CloseFileTaskId]
    /\ next_io = CloseFileIoId + 1
    /\ io_results = EmptyMap
    /\ io_queue = <<>>
    /\ dio_queue = <<>>
    /\ sq = <<>>
    /\ dio_sq = <<>>
    /\ inflight = EmptyBag
    /\ dio_inflight = EmptyBag
    /\ dio_done = <<>>
    /\ cq = <<>>
    /\ dio_cq = <<>>
    /\ cq_seen = 0
    /\ to_notify = {RootTaskId}
    /\ notifying = <<>>
    /\ notify_when = EmptyNotifyWhen
    /\ num_dio_running = 0
    /\ files_closing = 0
    /\ files_to_close = <<>>
    /\ next_fd = 1
    /\ elapsed = 0
    /\ idle_i = 0
    /\ hist = EmptyHist

\* unwinding without the guard: the context stays as the poll left it
GuardMissing == ctx

\* the poll unwinds: CurrentTaskContextGuard::drop clears the context on the
\* way out of run
GuardDrop == <<>>

\* a panic unwinds out of run: the guard is dropped and so is every local of
\* run (modelled as its empty value); the thread-local close queue stays
Unwind(origin) ==
    /\ pc' = "panicked"
    /\ ctx' = GuardDrop
    /\ out' = <<>>
    /\ ret' = <<>>
    /\ tasks' = {}
    /\ next_task' = 0
    /\ parent' = EmptyMap
    /\ join_out' = EmptyMap
    /\ io' = EmptyMap
    /\ next_io' = 0
    /\ io_results' = EmptyMap
    /\ io_queue' = <<>>
    /\ dio_queue' = <<>>
    /\ sq' = <<>>
    /\ dio_sq' = <<>>
    /\ inflight' = EmptyBag
    /\ dio_inflight' = EmptyBag
    /\ dio_done' = <<>>
    /\ cq' = <<>>
    /\ dio_cq' = <<>>
    /\ cq_seen' = 0
    /\ to_notify' = {}
    /\ notifying' = <<>>
    /\ notify_when' = EmptyNotifyWhen
    /\ num_dio_running' = 0
    /\ files_closing' = 0
    /\ elapsed' = 0
    /\ idle_i' = 0
    /\ hist' = [EmptyHist EXCEPT !.panic = origin]
    /\ UNCHANGED <<files_to_close, next_fd>>

\* variable groups left alone by most steps
taskVars == <<tasks, next_task, parent, join_out>>
ioVars == <<io, next_io, io_results>>
bufRingVars == <<io_queue, sq, inflight, cq>>
dioRingVars == <<dio_queue, dio_sq, dio_inflight, dio_done, dio_cq>>
closeVars == <<files_closing, files_to_close, next_fd>>

\* ---- the scheduler loop of run ------------------------------------------
\* the loop condition without its two close-related disjuncts
LoopCondRootOnly == out = <<>>

\* the loop condition of `while out.is_none() || files_closing > 0 || ...`
LoopCond == out = <<>> \/ files_closing > 0 \/ files_to_close # <<>>

\* the loop is left and run returns Ok(out.unwrap())
LoopExit ==
    /\ pc = "top"
    /\ ~LoopCond
    /\ pc' = "done"
    /\ ret' = out
    /\ UNCHANGED <<ctx, out, taskVars, ioVars, bufRingVars, dioRingVars, cq_seen,
                   to_notify, notifying, notify_when, num_dio_running, closeVars,
                   elapsed, idle_i, hist>>

\* "nothing to submit, nothing completed yet and there are no tasks to run"
IdleCond ==
    /\ sq = <<>> /\ cq = <<>> /\ to_notify = {} /\ io_queue = <<>>
    /\ files_to_close = <<>>
    /\ dio_sq = <<>> /\ dio_cq = <<>> /\ dio_queue = <<>>

\* an iteration starts: the rings are split and the idle wait is entered or
\* skipped
LoopEnterRun ==
    /\ pc = "top"
    /\ LoopCond
    /\ pc' = IF IdleCond THEN "idle" ELSE "ready"
    /\ cq_seen' = IF IdleCond THEN Len(cq) ELSE 0
    /\ idle_i' = 0
    /\ UNCHANGED <<ctx, out, ret, taskVars, ioVars, bufRingVars, dioRingVars,
                   to_notify, notifying, notify_when, num_dio_running, closeVars,
                   elapsed>>

LoopEnter == LoopEnterRun /\ UNCHANGED hist

\* a wait that gives up after its first pass
IdleWaitOnce == cq_seen = 0 /\ dio_cq = <<>> /\ to_notify = {} /\ idle_i = 0

\* `if cq.is_empty() && dio_cq.is_empty() && to_notify.is_empty()`
IdleWaitCond == cq_seen = 0 /\ dio_cq = <<>> /\ to_notify = {}

\* one pass of `for _ in 0..16` inside 'wait; the pass that ends the for
\* loop is followed by the sleep and the next round of passes
IdlePassWith(counted) ==
    /\ pc = "idle"
    /\ IF IdleWaitCond
       THEN \E o \in SubmitOutcomes :
              LET t == NotifyTimers(notify_when, to_notify)
                  poke == num_dio_running > 0
                  d == IF poke THEN RingSubmit(DioRing, TRUE, o) ELSE DioRing
              IN /\ (~poke) => o = "ok"
                 /\ IF d.st # "run" THEN Unwind("submit")
                    ELSE /\ notify_when' = t.notify_when
                         /\ to_notify' = t.to_notify
                         /\ cq_seen' = Len(cq)
                         /\ dio_sq' = d.s
                         /\ dio_inflight' = d.fl
                         /\ dio_done' = d.done
                         /\ dio_cq' = d.c
                         /\ pc' = "idle"
                         /\ idle_i' = IF idle_i + 1 >= IdleBudget THEN 0
                                      ELSE idle_i + 1
                         /\ hist' = [hist EXCEPT
                                       !.fired = t.notify_when # notify_when,
                                       !.passes = IF counted
                                                  THEN Min(@ + 1, IdleBudget + 1)
                                                  ELSE @]
                         /\ UNCHANGED <<ctx, out, ret, taskVars, ioVars,
                                        bufRingVars, dio_queue, notifying,
                                        num_dio_running, closeVars, elapsed>>
       ELSE /\ pc' = "ready"
            /\ idle_i' = 0
            /\ cq_seen' = 0
            /\ hist' = [hist EXCEPT !.fired = FALSE, !.passes = 0]
            /\ UNCHANGED <<notify_when, to_notify, dio_sq, dio_inflight, dio_done,
                           dio_cq, ctx, out, ret, taskVars, ioVars, bufRingVars,
                           dio_queue, notifying, num_dio_running, closeVars,
                           elapsed>>

IdlePass == IdlePassWith(FALSE)

\* `let start = Instant::now()` and the snapshot of the ready set
StartDrainRun(max_scratch) ==
    /\ pc = "ready"
    /\ Len(notifying) + Cardinality(to_notify) <= max_scratch
    /\ elapsed' = 0
    /\ IF to_notify # {}
       THEN /\ \E order \in IterKeys(to_notify) : notifying' = notifying \o order
            /\ to_notify' = {}
            /\ pc' = "pop"
       ELSE /\ pc' = "submit"
            /\ UNCHANGED <<notifying, to_notify>>
    /\ UNCHANGED <<ctx, out, ret, taskVars, ioVars, bufRingVars, dioRingVars,
                   cq_seen, notify_when, num_dio_running, closeVars, idle_i>>

StartDrainWithin(max_scratch) == StartDrainRun(max_scratch) /\ UNCHANGED hist

\* a context left in the slot after the poll
ContextKept(slot) == slot

\* `let _ = ctx.take().unwrap()` after the poll: the slot is emptied
ContextTake(slot) == <<>>

\* Slab::get_mut: absent for a key that was removed
SlabGet(keys, key) == key \in keys

\* a lookup that finds a task under every id
TaskLookupAlways(ts, task_id) == TRUE

\* `tasks.get_mut(task_id).map(..)`: Some when the id is in the task table
TaskLookup(ts, task_id) == SlabGet(ts, task_id)

StartDrain == StartDrainWithin(MaxScratch)

\* `while let Some(task_id) = notifying.pop()`: the context is installed and
\* the task looked up; an id no longer in the task table is skipped
PopTaskRun ==
    /\ pc = "pop"
    /\ IF notifying = <<>>
       THEN /\ pc' = "submit"
            /\ elapsed' = 0
            /\ UNCHANGED <<notifying, ctx>>
       ELSE /\ notifying' = Front(notifying)
            /\ IF TaskLookup(tasks, Last(notifying))
               THEN ctx' = <<Last(notifying)>> /\ pc' = "polling"
               ELSE ctx' = ContextTake(<<Last(notifying)>>) /\ pc' = "pop"
            /\ UNCHANGED elapsed
    /\ UNCHANGED <<out, ret, taskVars, ioVars, bufRingVars, dioRingVars, cq_seen,
                   to_notify, notify_when, num_dio_running, closeVars, idle_i>>

PopTask == PopTaskRun /\ UNCHANGED hist

\* ---- operations of the polled task, through CURRENT_TASK_CONTEXT --------
Polling == pc = "polling" /\ ctx # <<>>
self_task_id == ctx[1]

\* CurrentTaskContext::notify
Notify(tn, task_id) == tn \cup {task_id}

\* a counter raised for buffered intents too
DioCountAlways(n, direct_io) == n + 1

\* a counter that is never raised
DioCountNever(n, direct_io) == n

\* `checked_add(1)` on num_dio_running, for a direct intent only
DioCount(n, direct_io) == IF direct_io THEN n + 1 ELSE n

\* CurrentTaskContext::queue_io
QueueIoRun(direct_io) ==
    /\ Polling
    /\ LET io_id == SlabInsert(next_io)
       IN /\ io' = Put(io, io_id, self_task_id)
          /\ next_io' = next_io + 1
          /\ num_dio_running' = DioCount(num_dio_running, direct_io)
          /\ dio_queue' = IF direct_io THEN Append(dio_queue, io_id) ELSE dio_queue
          /\ io_queue' = IF direct_io THEN io_queue ELSE Append(io_queue, io_id)
    /\ UNCHANGED <<pc, ctx, out, ret, taskVars, io_results, sq, inflight, cq,
                   dio_sq, dio_inflight, dio_done, dio_cq, cq_seen, to_notify,
                   notifying, notify_when, closeVars, elapsed, idle_i>>

\* the history after a queue_io call of the polled task
QueueIoHist(direct_io) ==
    [hist EXCEPT !.dio_queued = IF direct_io THEN @ + 1 ELSE @,
                 !.owed = Put(@, SlabInsert(next_io), self_task_id)]

QueueIoCall(direct_io) == QueueIoRun(direct_io) /\ hist' = QueueIoHist(direct_io)

\* queue_io, while the io slab's keys stay within the bound of the model
QueueIo(direct_io) == next_io <= MaxIo /\ QueueIoCall(direct_io)

\* take_io_result that forgets `(*self.io).remove(io_id)`
TakeKeepsRecord(results, records, io_id) ==
    IF io_id \in DOMAIN results
    THEN [io_results |-> Drop(results, io_id), io |-> records,
          res |-> <<results[io_id]>>]
    ELSE [io_results |-> results, io |-> records, res |-> <<>>]

\* take_io_result that removes the I/O record before looking for a result
TakeDropsRecordFirst(results, records, io_id) ==
    IF io_id \in DOMAIN results
    THEN [io_results |-> Drop(results, io_id), io |-> Drop(records, io_id),
          res |-> <<results[io_id]>>]
    ELSE [io_results |-> results, io |-> Drop(records, io_id), res |-> <<>>]

\* take_io_result that returns the result and leaves it in the result map
TakeKeepsResult(results, records, io_id) ==
    IF io_id \in DOMAIN results
    THEN [io_results |-> results, io |-> Drop(records, io_id),
          res |-> <<results[io_id]>>]
    ELSE [io_results |-> results, io |-> records, res |-> <<>>]

\* CurrentTaskContext::take_io_result on tables results and records: the
\* tables afterwards and the Option returned
TakeIoResultOp(results, records, io_id) ==
    IF io_id \in DOMAIN results
    THEN [io_results |-> Drop(results, io_id), io |-> Drop(records, io_id),
          res |-> <<results[io_id]>>]
    ELSE [io_results |-> results, io |-> records, res |-> <<>>]

\* the task being polled calls take_io_result(io_id)
TakeIoResultRun(io_id) ==
    /\ Polling
    /\ io_id < next_io
    /\ LET t == TakeIoResultOp(io_results, io, io_id)
       IN /\ io_results' = t.io_results
          /\ io' = t.io
    /\ UNCHANGED <<pc, ctx, out, ret, taskVars, next_io, bufRingVars, dioRingVars,
                   cq_seen, to_notify, notifying, notify_when, num_dio_running,
                   closeVars, elapsed, idle_i>>

\* the history after a take_io_result(io_id) call
TakeIoHist(io_id) ==
    LET t == TakeIoResultOp(io_results, io, io_id)
    IN [hist EXCEPT !.owed = IF t.res # <<>> THEN Drop(@, io_id) ELSE @,
                    !.reported = IF t.res # <<>> THEN Drop(@, io_id) ELSE @]

TakeIoResult(io_id) == TakeIoResultRun(io_id) /\ hist' = TakeIoHist(io_id)

\* a yield that always suspends
YieldNeededAlways(e) == TRUE

\* a yield that waits until the budget is exceeded
YieldNeededStrict(e) == e > PreemptDuration

\* the bool yield_if_needed returns: false while
\* `self.start.elapsed() < self.preempt_duration`
YieldNeeded(e) == ~(e < PreemptDuration)

\* the ready set after yield_if_needed
YieldEffect(tn, task_id, e) ==
    IF YieldNeeded(e) THEN Notify(tn, task_id) ELSE tn

\* CurrentTaskContext::yield_if_needed, as polled by YieldIfNeeded
YieldIfNeededCall ==
    /\ Polling
    /\ to_notify' = YieldEffect(to_notify, self_task_id, elapsed)
    /\ UNCHANGED <<pc, ctx, out, ret, taskVars, ioVars, bufRingVars, dioRingVars,
                   cq_seen, notifying, notify_when, num_dio_running, closeVars,
                   elapsed, idle_i>>

YieldIfNeeded == YieldIfNeededCall /\ UNCHANGED hist

\* a wrapper that always notifies the root
caller_is_root == RootTaskId

\* `let caller_task_id = self.task_id;`
caller_task_id == self_task_id

\* CurrentTaskContext::spawn
SpawnTaskCall ==
    /\ Polling
    /\ LET task_id == SlabInsert(next_task)
       IN /\ tasks' = tasks \cup {task_id}
          /\ next_task' = next_task + 1
          /\ parent' = Put(parent, task_id, caller_task_id)
          /\ join_out' = Put(join_out, task_id, <<>>)
          /\ hist' = [hist EXCEPT !.join_got = Put(@, task_id, <<>>)]
          /\ to_notify' = Notify(to_notify, task_id)
    /\ UNCHANGED <<pc, ctx, out, ret, ioVars, bufRingVars, dioRingVars, cq_seen,
                   notifying, notify_when, num_dio_running, closeVars, elapsed,
                   idle_i>>

\* spawn, while the task slab's keys stay within the bound of the model
SpawnTask == next_task < MaxTasks /\ SpawnTaskCall

\* CurrentTaskContext::notify_when; `when` is given relative to the clock
NotifyWhenCall(when) ==
    /\ Polling
    /\ notify_when' = [timer |-> Append(notify_when.timer, when),
                       task_id |-> Append(notify_when.task_id, self_task_id)]
    /\ UNCHANGED <<pc, ctx, out, ret, taskVars, ioVars, bufRingVars, dioRingVars,
                   cq_seen, to_notify, notifying, num_dio_running, closeVars,
                   elapsed, idle_i, hist>>

\* notify_when, while the deadline set stays within the bound of the model
NotifyWhen(when) == Len(notify_when.timer) < MaxTimers /\ NotifyWhenCall(when)

\* File::drop inside a poll
DropFile ==
    /\ Polling
    /\ next_fd <= MaxFiles
    /\ files_to_close' = Append(files_to_close, next_fd)
    /\ next_fd' = next_fd + 1
    /\ UNCHANGED <<pc, ctx, out, ret, taskVars, ioVars, bufRingVars, dioRingVars,
                   cq_seen, to_notify, notifying, notify_when, num_dio_running,
                   files_closing, elapsed, idle_i, hist>>

\* a poll that reads the slot without taking the value out of it
JoinHandlePollPeek(slot) == [out |-> slot, res |-> slot]

\* JoinHandle::poll: `self.out.take()`; the slot after the poll and what the
\* poll returns (<<>> for Pending, <<v>> for Ready(v))
JoinHandlePoll(slot) == [out |-> <<>>, res |-> slot]

\* the task being polled polls the JoinHandle of child c
JoinPollRun(c) ==
    /\ Polling
    /\ c \in DOMAIN join_out
    /\ LET p == JoinHandlePoll(join_out[c])
       IN /\ p.res # <<>>
          /\ Len(hist.join_got[c]) < 2
          /\ join_out' = [join_out EXCEPT ![c] = p.out]
    /\ UNCHANGED <<pc, ctx, out, ret, tasks, next_task, parent, ioVars, bufRingVars,
                   dioRingVars, cq_seen, to_notify, notifying, notify_when,
                   num_dio_running, closeVars, elapsed, idle_i>>

\* the history after that poll of the handle
JoinPollHist(c) ==
    [hist EXCEPT !.join_got[c] = @ \o JoinHandlePoll(join_out[c]).res]

JoinPoll(c) == JoinPollRun(c) /\ hist' = JoinPollHist(c)

\* the future wrapped by run (root) or by spawn (child) returns v: the output
\* slot is filled and, for a child, the caller of spawn is notified
Complete(task_id, v) ==
    IF task_id = RootTaskId
    THEN /\ out' = <<v>>
         /\ UNCHANGED <<join_out, to_notify>>
    ELSE /\ join_out' = [join_out EXCEPT ![task_id] = <<v>>]
         /\ to_notify' = Notify(to_notify, parent[task_id])
         /\ UNCHANGED out

\* try_submit_io on the buffered ring (force_submit false) and then on the
\* direct ring (force_submit force_dio): every pair of rings that may result;
\* a panic in the first call leaves the direct ring as it was
SubmitBoth(force_dio) ==
    UNION {{<<b, d>> : d \in (IF b.st = "run"
                               THEN TrySubmitIo(DioRing, TRUE, force_dio)
                               ELSE {DioRing})}
           : b \in TrySubmitIo(BufRing, FALSE, FALSE)}

SetRings(r) ==
    /\ io_queue' = r[1].q /\ sq' = r[1].s /\ inflight' = r[1].fl
    /\ dio_queue' = r[2].q /\ dio_sq' = r[2].s /\ dio_inflight' = r[2].fl
    /\ dio_done' = r[2].done /\ dio_cq' = r[2].c

\* a Ready task left in the task table
RemoveTaskKept(ts, task_id) == ts

\* tasks.remove(task_id)
RemoveTask(ts, task_id) == ts \ {task_id}

\* the poll of the task returns: res is <<>> for Poll::Pending and <<v>> for
\* Poll::Ready after the wrapped future returned v. The context is cleared,
\* a Ready task is removed, and the drain stops on the budget or goes on
\* after the two try_submit_io calls.
PollReturn(res) ==
    /\ Polling
    /\ res # <<>> => (res[1] \in RootValues <=> self_task_id = RootTaskId)
    /\ LET stop == elapsed > PreemptDuration
       IN \E r \in (IF stop THEN {<<BufRing, DioRing>>} ELSE SubmitBoth(FALSE)) :
            IF r[1].st # "run" \/ r[2].st # "run" THEN Unwind("submit")
            ELSE /\ ctx' = ContextTake(ctx)
                 /\ IF res = <<>>
                    THEN UNCHANGED <<out, join_out, to_notify, tasks>>
                    ELSE /\ Complete(self_task_id, res[1])
                         /\ tasks' = RemoveTask(tasks, self_task_id)
                 /\ hist' = IF res = <<>> THEN hist
                            ELSE [hist EXCEPT
                              !.child_ret = IF self_task_id = RootTaskId THEN @
                                            ELSE Put(@, self_task_id, res[1]),
                              !.broken = @ \/ \E i \in DOMAIN hist.owed :
                                                 hist.owed[i] = self_task_id]
                 /\ SetRings(r)
                 /\ pc' = IF stop THEN "submit" ELSE "pop"
                 /\ elapsed' = IF stop THEN 0 ELSE elapsed
                 /\ UNCHANGED <<ret, next_task, parent, ioVars, cq, cq_seen,
                                notifying, notify_when, num_dio_running,
                                closeVars, idle_i>>

\* the poll of the task panics
PollPanic ==
    /\ Polling
    /\ Unwind("poll")

\* try_submit_io(io_queue, ring, false); try_submit_io(dio_queue, dio_ring, true)
\* a direct ring that is submitted to only when something is queued
ForceDioSubmitOff == FALSE

\* force_submit of `try_submit_io(&mut dio_queue, &mut dio_ring, true)`
ForceDioSubmit == TRUE

Submit ==
    /\ pc = "submit"
    /\ \E r \in SubmitBoth(ForceDioSubmit) :
         IF r[1].st # "run" \/ r[2].st # "run" THEN Unwind("submit")
         ELSE /\ SetRings(r)
              /\ pc' = "drain"
              /\ UNCHANGED <<ctx, out, ret, taskVars, ioVars, cq, cq_seen,
                             to_notify, notifying, notify_when, num_dio_running,
                             closeVars, elapsed, idle_i, hist>>

IsCloseCqe(cqe) == cqe[1] = CloseFileIoId

\* both completion queues are synced, the direct counter is lowered by the
\* number of direct completions, and every completion is processed
DrainCompletions ==
    /\ pc = "drain"
    /\ LET d == DrainAll([io_results |-> io_results, to_notify |-> to_notify,
                          files_closing |-> files_closing, st |-> "run"],
                         DrainOrder(cq, dio_cq))
       IN IF num_dio_running < Len(dio_cq) THEN Unwind("underflow")
          ELSE IF d.st # "run" THEN Unwind(d.st)
          ELSE /\ num_dio_running' = num_dio_running - Len(dio_cq)
               /\ hist' = [hist EXCEPT
                    !.dio_drained = @ + Len(dio_cq),
                    !.close_drained = @ + Len(SelectSeq(cq \o dio_cq, IsCloseCqe))]
               /\ io_results' = d.io_results
               /\ to_notify' = d.to_notify
               /\ files_closing' = d.files_closing
               /\ cq' = <<>>
               /\ dio_cq' = <<>>
               /\ pc' = "timers"
               /\ UNCHANGED <<ctx, out, ret, taskVars, io, next_io, io_queue, sq,
                              inflight, dio_queue, dio_sq, dio_inflight, dio_done,
                              cq_seen, notifying, notify_when, files_to_close,
                              next_fd, elapsed, idle_i>>

\* notify_timers(&mut notify_when, &mut to_notify) at the end of an iteration
FireTimers ==
    /\ pc = "timers"
    /\ LET t == NotifyTimers(notify_when, to_notify)
       IN /\ notify_when' = t.notify_when
          /\ to_notify' = t.to_notify
          /\ hist' = [hist EXCEPT !.fired = t.notify_when # notify_when]
    /\ pc' = "close"
    /\ UNCHANGED <<ctx, out, ret, taskVars, ioVars, bufRingVars, dioRingVars,
                   cq_seen, notifying, num_dio_running, closeVars, elapsed, idle_i>>

\* a counter raised once per call instead of once per fd
ClosingCountOnce(n, files) == n + 1

\* `files_closing.checked_add(1)` for every fd of the close queue
ClosingCount(n, files) == n + Len(files)

\* a close queue that keeps its fds after their submissions were enqueued
ClearFilesKept(files) == files

\* `files.clear()`
ClearFiles(files) == <<>>

\* "close files": one Close entry tagged with the reserved io-id per queued fd
CloseFiles ==
    /\ pc = "close"
    /\ files_closing' = ClosingCount(files_closing, files_to_close)
    /\ io_queue' = io_queue \o [i \in 1 .. Len(files_to_close) |-> CloseFileIoId]
    /\ files_to_close' = ClearFiles(files_to_close)
    /\ pc' = "top"
    /\ hist' = [hist EXCEPT !.fired = FALSE,
                            !.close_queued = @ + Len(io_queue') - Len(io_queue)]
    /\ UNCHANGED <<ctx, out, ret, taskVars, ioVars, sq, inflight, cq, dioRingVars,
                   cq_seen, to_notify, notifying, notify_when, num_dio_running,
                   next_fd, elapsed, idle_i>>

\* ---- the kernel, the device and the clock -------------------------------
Running == pc \notin {"done", "panicked"}

\* the kernel posts the completion of a buffered operation it holds
KernelComplete(id, res) ==
    /\ Running
    /\ BagIn(id, inflight)
    /\ inflight' = inflight (-) SetToBag({id})
    /\ cq' = Append(cq, <<id, res>>)
    /\ hist' = [hist EXCEPT
         !.reported = IF id = CloseFileIoId THEN @ ELSE Put(@, id, res)]
    /\ UNCHANGED <<pc, ctx, out, ret, taskVars, ioVars, io_queue, sq, dioRingVars,
                   cq_seen, to_notify, notifying, notify_when, num_dio_running,
                   closeVars, elapsed, idle_i>>

\* the device finishes a polled operation; it is reaped by the next submit
\* on the direct ring
DeviceComplete(id, res) ==
    /\ Running
    /\ BagIn(id, dio_inflight)
    /\ dio_inflight' = dio_inflight (-) SetToBag({id})
    /\ dio_done' = Append(dio_done, <<id, res>>)
    /\ hist' = [hist EXCEPT !.reported = Put(@, id, res)]
    /\ UNCHANGED <<pc, ctx, out, ret, taskVars, ioVars, bufRingVars, dio_queue,
                   dio_sq, dio_cq, cq_seen, to_notify, notifying, notify_when,
                   num_dio_running, closeVars, elapsed, idle_i>>

RECURSIVE Later(_)
Later(timer) ==
    IF timer = <<>> THEN <<>>
    ELSE <<Max(Head(timer) - 1, -1)>> \o Later(Tail(timer))

\* the clock advances by one tick: the drain's elapsed time grows and every
\* deadline comes one tick closer (or lies further in the past)
Tick ==
    /\ Running
    /\ elapsed' = IF pc \in {"pop", "polling"}
                  THEN Min(elapsed + 1, PreemptDuration + 1) ELSE elapsed
    /\ notify_when' = [notify_when EXCEPT !.timer = Later(@)]
    /\ UNCHANGED <<pc, ctx, out, ret, taskVars, ioVars, bufRingVars, dioRingVars,
                   cq_seen, to_notify, notifying, num_dio_running, closeVars,
                   idle_i, hist>>

IoIds == 1 .. MaxIo
Whens == -1 .. MaxAhead

TaskStep ==
    \/ \E direct_io \in BOOLEAN : QueueIo(direct_io)
    \/ \E io_id \in IoIds : TakeIoResult(io_id)
    \/ YieldIfNeeded
    \/ SpawnTask
    \/ \E when \in Whens : NotifyWhen(when)
    \/ DropFile
    \/ \E c \in DOMAIN join_out : JoinPoll(c)
    \/ \E res \in {<<>>} \cup {<<v>> : v \in Values \cup RootValues} : PollReturn(res)
    \/ PollPanic

SchedStep ==
    \/ LoopExit
    \/ LoopEnter
    \/ IdlePass
    \/ StartDrain
    \/ PopTask
    \/ Submit
    \/ DrainCompletions
    \/ FireTimers
    \/ CloseFiles

EnvStep ==
    \/ \E id \in IoIds, res \in Results : KernelComplete(id, res)
    \/ KernelComplete(CloseFileIoId, 0)
    \/ \E id \in IoIds, res \in Results : DeviceComplete(id, res)
    \/ Tick

Next == SchedStep \/ TaskStep \/ EnvStep

Spec == Init /\ [][Next]_vars

\* ---- tasks that yield: the setting of the yield-fairness property ---------
\* Every task calls yield_if_needed between units of work: once the budget
\* of the iteration is used up (YieldDue) its next operation is the yield,
\* which returns true, and the task returns Pending; before that it spawns
\* or returns Ready. No task waits for anything else, a unit of work takes
\* whatever time the clock gives it.
YieldDue == Polling /\ elapsed >= PreemptDuration

TaskYield ==
    \/ ~YieldDue /\ SpawnTask
    \/ YieldDue /\ self_task_id \notin to_notify /\ YieldIfNeeded
    \/ YieldDue /\ self_task_id \in to_notify /\ PollReturn(<<>>)
    \/ ~YieldDue /\ \E v \in Values \cup RootValues : PollReturn(<<v>>)

\* the steps of run's loop; the idle wait is never entered, the polled task
\* being in the ready set or run over whenever an iteration ends
SchedYield ==
    \/ LoopExit
    \/ LoopEnter
    \/ StartDrain
    \/ PopTask
    \/ Submit
    \/ DrainCompletions
    \/ FireTimers
    \/ CloseFiles

NextYield == SchedYield \/ TaskYield \/ Tick

\* run's loop is sequential code and goes on; a poll of a yielding task
\* returns
SpecYield ==
    /\ Init
    /\ [][NextYield]_vars
    /\ WF_vars(SchedYield)
    /\ WF_vars(TaskYield)

\* ---- the yield-loop scenario ----------------------------------------------
\* The root is `for _ in 0..5 { YieldIfNeeded.await } 0`: each poll of the
\* yield primitive calls yield_if_needed; Ready completes the await, Pending
\* ends the poll of the root, and the same await is polled again in the
\* root's next poll. hist.yields is the root's position, hist.iters counts
\* the iterations of run's loop.
AwaitYield ==
    /\ Polling
    /\ self_task_id \notin to_notify
    /\ hist.yields < YieldCount
    /\ YieldIfNeededCall
    /\ hist' = [hist EXCEPT
                  !.yields = IF YieldNeeded(elapsed) THEN @ ELSE @ + 1]

RootPending ==
    /\ Polling
    /\ self_task_id \in to_notify
    /\ PollReturn(<<>>)

RootReturn ==
    /\ Polling
    /\ self_task_id \notin to_notify
    /\ hist.yields = YieldCount
    /\ PollReturn(<<0>>)

LoopEnterCounted ==
    /\ LoopEnterRun
    /\ hist' = [hist EXCEPT !.iters = Min(@ + 1, MaxIters)]

SchedYieldLoop ==
    \/ LoopExit
    \/ LoopEnterCounted
    \/ StartDrain
    \/ PopTask
    \/ Submit
    \/ DrainCompletions
    \/ FireTimers
    \/ CloseFiles

RootYieldLoop == AwaitYield \/ RootPending \/ RootReturn

\* an await of the yield primitive that finds the budget not used up, and
\* a pop that finds it not used up
AwaitReady == AwaitYield /\ ~YieldNeeded(elapsed)
PromptPop == PopTask /\ ~YieldNeeded(elapsed)

NextYieldLoop == SchedYieldLoop \/ RootYieldLoop \/ Tick

\* run's loop goes on, the root's poll goes on, and the clock does not run
\* past the budget between the start of the drain and the root's await in
\* every iteration for ever (the budget is milliseconds, the way from
\* `start` to the first await a few instructions)
SpecYieldLoop ==
    /\ Init
    /\ [][NextYieldLoop]_vars
    /\ WF_vars(SchedYieldLoop)
    /\ WF_vars(RootYieldLoop)
    /\ SF_vars(PromptPop)
    /\ SF_vars(AwaitReady)

\* ---- tasks that may overrun the budget -----------------------------------
\* Tasks spawn, call yield_if_needed or not, work for as long as the clock
\* gives them, and return Pending (waiting for something that may never
\* come) or Ready; they queue no I/O, register no deadline and drop no File.
TaskPreempt ==
    \/ SpawnTask
    \/ YieldIfNeeded
    \/ \E res \in {<<>>} \cup {<<v>> : v \in Values \cup RootValues} : PollReturn(res)

NextPreempt == SchedStep \/ TaskPreempt \/ Tick

\* run's loop is sequential code and goes on, the idle wait included; a poll
\* returns
SpecPreempt ==
    /\ Init
    /\ [][NextPreempt]_vars
    /\ WF_vars(SchedStep)
    /\ WF_vars(TaskPreempt)

\* ---- the polls of one iteration --------------------------------------------
\* run's loop with tasks that may overrun the budget, recording per iteration
\* the ready set as it was when the drain started (hist.snapshot) and the ids
\* for which a poll was made since (hist.polled).
StartDrainPolls ==
    /\ StartDrainRun(MaxScratch)
    /\ hist' = [hist EXCEPT !.snapshot = to_notify, !.polled = {}]

PopTaskPolls ==
    /\ PopTaskRun
    /\ hist' = [hist EXCEPT !.polled = @ \cup Range(ctx')]

SchedPolls ==
    \/ LoopExit
    \/ LoopEnter
    \/ IdlePass
    \/ StartDrainPolls
    \/ PopTaskPolls
    \/ Submit
    \/ DrainCompletions
    \/ FireTimers
    \/ CloseFiles

NextPolls == SchedPolls \/ TaskPreempt \/ Tick

SpecPolls == Init /\ [][NextPolls]_vars

\* ---- the spawn-and-join scenario -------------------------------------------
\* The root of test_spawn spawns handle1's task (ChildA, returns 1) and
\* handle2's task (ChildB, returns 2), awaits handle2, then handle1, and
\* returns 0; between these it awaits the yield primitive. An await that is
\* not ready ends the root's poll with Pending. The children are taken more
\* generally than in the test: a child may call yield_if_needed any number
\* of times, return Pending, or return its value.
ChildValue(task_id) == IF task_id = ChildA THEN 1 ELSE 2

RootSpawnJoin ==
    /\ Polling
    /\ self_task_id = RootTaskId
    /\ \/ YieldIfNeeded
       \/ next_task <= ChildB /\ SpawnTaskCall
       \/ next_task > ChildB /\ hist.join_got[ChildB] = <<>> /\ JoinPoll(ChildB)
       \/ /\ next_task > ChildB /\ hist.join_got[ChildB] # <<>>
          /\ hist.join_got[ChildA] = <<>> /\ JoinPoll(ChildA)
       \/ PollReturn(<<>>)
       \/ /\ next_task > ChildB /\ hist.join_got[ChildB] # <<>>
          /\ hist.join_got[ChildA] # <<>> /\ PollReturn(<<0>>)

ChildSpawnJoin ==
    /\ Polling
    /\ self_task_id # RootTaskId
    /\ \/ YieldIfNeeded
       \/ PollReturn(<<>>)
       \/ PollReturn(<<ChildValue(self_task_id)>>)

\* run's loop, the scratch list long enough for the three tasks
StartDrainJoin == StartDrainWithin(MaxScratchJoin)

SchedSpawnJoin ==
    \/ LoopExit
    \/ LoopEnter
    \/ IdlePass
    \/ StartDrainJoin
    \/ PopTask
    \/ Submit
    \/ DrainCompletions
    \/ FireTimers
    \/ CloseFiles

NextSpawnJoin == SchedSpawnJoin \/ RootSpawnJoin \/ ChildSpawnJoin \/ Tick

SpecSpawnJoin == Init /\ [][NextSpawnJoin]_vars

\* ---- children that outlive their parent -------------------------------------
\* Up to three tasks besides the close handler: the root, and two tasks
\* spawned by whichever task is being polled. A task spawns, yields, drops
\* a File, works for as long as the clock gives it, and returns Pending or
\* Ready whether or not a task it spawned has completed; the kernel
\* completes the closes.
TaskOrphan ==
    \/ next_task <= ChildB /\ SpawnTaskCall
    \/ YieldIfNeeded
    \/ DropFile
    \/ \E res \in {<<>>} \cup {<<v>> : v \in Values \cup RootValues} : PollReturn(res)

NextOrphan ==
    SchedSpawnJoin \/ TaskOrphan \/ KernelComplete(CloseFileIoId, 0) \/ Tick

SpecOrphan == Init /\ [][NextOrphan]_vars

\* ---- a task that does I/O -------------------------------------------------
\* The root alone: it queues up to MaxIoWide intents on either ring, takes
\* results, yields, and returns Pending or Ready; the kernel and the device
\* complete what they hold.
IoIdsWide == 1 .. MaxIoWide

TaskIo ==
    \/ \E direct_io \in BOOLEAN : next_io <= MaxIoWide /\ QueueIoCall(direct_io)
    \/ \E io_id \in IoIdsWide : TakeIoResult(io_id)
    \/ YieldIfNeeded
    \/ PollReturn(<<>>)
    \/ PollReturn(<<0>>)

EnvIo ==
    \/ \E id \in IoIdsWide, res \in Results : KernelComplete(id, res)
    \/ \E id \in IoIdsWide, res \in Results : DeviceComplete(id, res)
    \/ Tick

NextIo == SchedStep \/ TaskIo \/ EnvIo

SpecIo == Init /\ [][NextIo]_vars

\* a step of the loop or of the idle wait in which the submit on the direct
\* ring succeeds: the finished polled operations surface as completions
PokeOk ==
    /\ Submit \/ IdlePass
    /\ pc' # "panicked" /\ dio_sq' = <<>> /\ dio_done' = <<>>

DeviceDone == \E id \in IoIdsWide, res \in Results : DeviceComplete(id, res)

\* run's loop is sequential code and goes on, a poll returns, the device
\* finishes every operation it holds, and the submit on the direct ring is
\* not busy for ever
SpecIoFair ==
    /\ Init
    /\ [][NextIo]_vars
    /\ WF_vars(SchedStep)
    /\ WF_vars(TaskIo)
    /\ WF_vars(DeviceDone)
    /\ SF_vars(PokeOk)

\* ---- the idle wait, its passes counted --------------------------------------
\* The root does I/O on either ring, registers deadlines and drops Files;
\* hist.passes counts the passes of the idle wait since it was entered.
IdlePassCounted == IdlePassWith(TRUE)

SchedIdle ==
    \/ LoopExit
    \/ LoopEnter
    \/ IdlePassCounted
    \/ StartDrain
    \/ PopTask
    \/ Submit
    \/ DrainCompletions
    \/ FireTimers
    \/ CloseFiles

TaskIdle ==
    \/ TaskIo
    \/ \E when \in Whens : NotifyWhen(when)
    \/ DropFile

NextIdle == SchedIdle \/ TaskIdle \/ EnvIo \/ KernelComplete(CloseFileIoId, 0)

SpecIdle == Init /\ [][NextIdle]_vars

\* ---- the file leaf operations ----------------------------------------------
\* Close, Open, Read, Write, Statx and SyncAll of fs/file.rs have the same
\* poll: with io_id None the intent is queued, io_id set and Pending returned;
\* with io_id Some(id) take_io_result(id) is called, None gives Pending and
\* Some(r) gives Ready with r mapped to the output. The root awaits LeafOps
\* such operations one after the other, as smoke_test does (open, statx,
\* read); hist.fut is the io_id field of the operation being awaited and
\* hist.leaf_out the outputs the operations returned, with their io-ids.
\* The root may return Pending at any point, drops the File it opened, and
\* unwraps the outputs.
LeafResults == {-2, 0, 1}

\* an error output that carries the result as it is
LeafOutputRaw(io_result) ==
    IF io_result < 0 THEN [ok |-> FALSE, v |-> io_result]
    ELSE [ok |-> TRUE, v |-> io_result]

\* `if io_result < 0 { Err(from_raw_os_error(-io_result)) } else { Ok(..) }`
LeafOutput(io_result) ==
    IF io_result < 0 THEN [ok |-> FALSE, v |-> 0 - io_result]
    ELSE [ok |-> TRUE, v |-> io_result]

LeafFirstPoll ==
    /\ Polling
    /\ hist.fut = <<>>
    /\ Len(hist.leaf_out) < LeafOps
    /\ \E direct_io \in BOOLEAN :
         /\ QueueIoRun(direct_io)
         /\ hist' = [QueueIoHist(direct_io) EXCEPT !.fut = <<SlabInsert(next_io)>>]

LeafLaterPoll ==
    /\ Polling
    /\ hist.fut # <<>>
    /\ LET io_id == hist.fut[1]
           t == TakeIoResultOp(io_results, io, io_id)
       IN /\ TakeIoResultRun(io_id)
          /\ hist' = IF t.res = <<>> THEN hist
                     ELSE [TakeIoHist(io_id) EXCEPT
                             !.fut = <<>>,
                             !.leaf_out = Append(@, <<io_id, LeafOutput(t.res[1])>>)]

RootLeaf ==
    \/ LeafFirstPoll
    \/ LeafLaterPoll
    \/ PollReturn(<<>>)
    \/ Len(hist.leaf_out) = LeafOps /\ PollReturn(<<0>>)
    \/ hist.leaf_out # <<>> /\ DropFile
    \/ hist.leaf_out # <<>> /\ ~Last(hist.leaf_out)[2].ok /\ PollPanic

EnvLeaf ==
    \/ \E id \in 1 .. LeafOps, res \in LeafResults : KernelComplete(id, res)
    \/ \E id \in 1 .. LeafOps, res \in LeafResults : DeviceComplete(id, res)
    \/ KernelComplete(CloseFileIoId, 0)
    \/ Tick

NextLeaf == SchedStep \/ RootLeaf \/ EnvLeaf

SpecLeaf == Init /\ [][NextLeaf]_vars

\* ---- join handles that change hands -------------------------------------------
\* Up to three tasks besides the close handler, each of which may spawn, yield,
\* return, and poll the JoinHandle of any child: a handle is a value and may be
\* moved to a task other than the one that called spawn. hist.join_by is the
\* task that took each child's value out of its handle.
JoinPollBy(c) ==
    /\ JoinPollRun(c)
    /\ hist' = [JoinPollHist(c) EXCEPT !.join_by = Put(@, c, self_task_id)]

TaskHandle ==
    \/ next_task <= ChildB /\ SpawnTaskCall
    \/ \E c \in DOMAIN join_out : JoinPollBy(c)
    \/ YieldIfNeeded
    \/ \E res \in {<<>>} \cup {<<v>> : v \in Values \cup RootValues} : PollReturn(res)

NextHandle == SchedSpawnJoin \/ TaskHandle \/ Tick

SpecHandle == Init /\ [][NextHandle]_vars

\* ---- tasks that wait for deadlines --------------------------------------------
\* The root and one task it spawns register deadlines, before, at and after
\* the clock reading, yield and return, while the clock advances; the
\* deadline set holds up to MaxTimersWide entries.
WhensWide == -1 .. MaxAheadWide

TaskTimers ==
    \/ next_task <= ChildA /\ SpawnTaskCall
    \/ \E when \in WhensWide :
         Len(notify_when.timer) < MaxTimersWide /\ NotifyWhenCall(when)
    \/ YieldIfNeeded
    \/ \E res \in {<<>>} \cup {<<v>> : v \in Values \cup RootValues} : PollReturn(res)

NextTimers == SchedSpawnJoin \/ TaskTimers \/ Tick

SpecTimers == Init /\ [][NextTimers]_vars

\* ========================================================================
\* Claims
\* ========================================================================
Settled == out # <<>> /\ files_closing = 0 /\ files_to_close = <<>>

\* C1: run's loop is left (other than by a panic) only in a state where the
\* root-output slot is filled, the pending-close counter is zero and the
\* close queue is empty, and run then returns the root's value; and whenever
\* the three hold at the top of an iteration the loop is left, otherwise an
\* iteration starts.
C1_LoopExit ==
    /\ [](pc = "done" => Settled /\ ret = out)
    /\ [][/\ (pc' = "done" /\ pc # "done") => (pc = "top" /\ Settled)
          /\ (pc = "top" /\ pc' \notin {"top", "panicked"})
               => (Settled <=> pc' = "done")]_vars

\* C1 witness: run has returned after a dropped File was closed.
C1_Witness == pc = "done" /\ next_fd > 1 /\ ret # <<>>

\* C2 (as claimed): once the loop has exited the task table holds only the
\* close-handler record, the ready set, the deadline set and the close queue
\* are empty and the pending-close counter is zero.
C2_ExitLeavesNothing ==
    pc = "done" =>
        /\ tasks = {CloseFileTaskId}
        /\ to_notify = {}
        /\ notify_when.timer = <<>>
        /\ files_to_close = <<>>
        /\ files_closing = 0

\* C2 (amended): once the loop has exited the close queue is empty, the
\* pending-close counter is zero, and the task table holds the close-handler
\* record, never the root, and beside it only spawned children whose future
\* has not returned; the ready set and the deadline set may be non-empty.
C2_ExitState ==
    pc = "done" =>
        /\ files_to_close = <<>>
        /\ files_closing = 0
        /\ CloseFileTaskId \in tasks
        /\ RootTaskId \notin tasks
        /\ tasks \ {CloseFileTaskId} \subseteq (DOMAIN parent) \ (DOMAIN hist.child_ret)

\* C2 witness: the loop has exited with a child still in the task table and
\* in the ready set.
C2_Witness ==
    /\ pc = "done"
    /\ \E c \in tasks : c # CloseFileTaskId /\ c \in to_notify

ReadyTask(b) == b \in tasks /\ (b \in to_notify \/ b \in Range(notifying))

\* C4: with every task yielding between units of work, every ready task
\* (in the ready set or left in the scratch list) is eventually polled,
\* unless run ends first.
C4_YieldFair ==
    \A b \in 1 .. MaxTasks :
        ReadyTask(b) ~> (ctx = <<b>> \/ pc \in {"done", "panicked"})

\* C5: after a panic has left run (from the poll of any task, or from the
\* scheduler itself) the ambient context slot is empty and run has returned
\* no value.
C5_PanicSafe == pc = "panicked" => ctx = <<>> /\ ret = <<>>

\* C5 witness: the poll of a task has panicked.
C5_Witness == pc = "panicked" /\ hist.panic = "poll"

\* the (deadline, task) pairs of a deadline set, and those not yet elapsed
Pairs(nw) == [i \in 1 .. Len(nw.timer) |-> <<nw.timer[i], nw.task_id[i]>>]
NotElapsed(p) == p[1] >= 0
PendingPairs(nw) == SeqToBag(SelectSeq(Pairs(nw), NotElapsed))
ElapsedTasks(nw) == {nw.task_id[i] : i \in {j \in 1 .. Len(nw.timer) : nw.timer[j] < 0}}
TimersFiredRight ==
    /\ PendingPairs(notify_when') = PendingPairs(notify_when)
    /\ BagCardinality(PendingPairs(notify_when)) = Len(notify_when'.timer)
    /\ to_notify' = to_notify \cup ElapsedTasks(notify_when)

\* C6: a deadline leaves the deadline set, and its task enters the ready set
\* on its account, only at a clock reading strictly after the deadline; a
\* deadline equal to or later than the clock reading stays in the set, in
\* the end-of-iteration timer step and in every pass of the idle wait.
C6_TimerMonotone ==
    [][/\ (Len(notify_when'.timer) < Len(notify_when.timer) /\ pc' # "panicked")
            => TimersFiredRight
       /\ (pc = "timers" /\ pc' = "close") => TimersFiredRight]_vars

\* C6 witness: the end-of-iteration timer step has just moved a deadline to
\* the ready set.
C6_Witness == pc = "close" /\ hist.fired /\ to_notify # {}

OwnersLive == \A i \in DOMAIN io : io[i] \in tasks

\* C7 (as claimed): every record of the I/O record table names an owning
\* task that is still in the task table, also when a task returned Ready
\* while an intent it queued had not had its result taken.
C7_OwnersLive == OwnersLive

\* C7 (amended): as long as no task has returned Ready while an intent it
\* queued had not had its result taken (queue_io's caller contract), every
\* record of the I/O record table names an owning task still in the task
\* table.
C7_OwnersLiveUnderContract == ~hist.broken => OwnersLive

\* C7 witness: a child has returned Ready within the contract while the table
\* holds the record of an intent whose owner is still live.
C7_Witness ==
    /\ ~hist.broken
    /\ DOMAIN hist.child_ret # {}
    /\ \E i \in DOMAIN io : i # CloseFileIoId /\ io[i] \in tasks

Completions == Range(cq) \cup Range(dio_cq)

\* C8: every completion waiting to be drained, other than a close
\* completion, carries an io-id that queue_io handed out and whose result has
\* not been taken or stored yet, and whose record is in the I/O record
\* table: the drain's lookup never fails.
C8_CompletionsKnown ==
    /\ hist.panic # "lookup"
    /\ \A cqe \in Completions :
         cqe[1] # CloseFileIoId =>
           /\ cqe[1] \in DOMAIN hist.owed
           /\ cqe[1] \in DOMAIN io
           /\ cqe[1] \notin DOMAIN io_results

\* C8 witness: a completion carrying a queued io-id is about to be drained.
C8_Witness == pc = "drain" /\ \E cqe \in Completions : cqe[1] # CloseFileIoId

\* C9: the direct in-flight counter equals the direct intents queued minus
\* the direct completions drained, which is the number of direct operations
\* between queue_io and the drain; it never goes below zero.
C9_DioCounter ==
    /\ num_dio_running = hist.dio_queued - hist.dio_drained
    /\ num_dio_running >= 0
    /\ hist.panic # "underflow"
    /\ num_dio_running = Len(dio_queue) + Len(dio_sq) + BagCardinality(dio_inflight)
                         + Len(dio_done) + Len(dio_cq)

\* C9 witness: a direct completion has been drained and the counter is back
\* at zero.
C9_Witness == hist.dio_drained > 0 /\ num_dio_running = 0

\* C10: every key of the completion-result map is an io-id present in the
\* I/O record table, and the reserved close io-id never has a result.
C10_ResultsHaveRecords ==
    /\ DOMAIN io_results \subseteq DOMAIN io
    /\ CloseFileIoId \notin DOMAIN io_results

\* C10 witness: a result is stored while a close completion has been drained.
C10_Witness ==
    /\ DOMAIN io_results # {}
    /\ next_fd > 1 /\ files_to_close = <<>> /\ files_closing = 0
    /\ io_queue = <<>> /\ sq = <<>> /\ inflight = EmptyBag /\ cq = <<>>
    /\ Running

IsCloseId(id) == id = CloseFileIoId
\* close submissions between the close step and the drain
ClosesOutstanding ==
    Len(SelectSeq(io_queue, IsCloseId)) + Len(SelectSeq(sq, IsCloseId))
    + CopiesIn(CloseFileIoId, inflight) + Len(SelectSeq(cq, IsCloseCqe))

C20_ClosingCounter ==
    /\ [](/\ files_closing = hist.close_queued - hist.close_drained
          /\ files_closing >= 0
          /\ hist.panic # "underflow")
    /\ [][(pc = "drain" /\ pc' = "timers") =>
            LET closes == SelectSeq(cq \o dio_cq, IsCloseCqe)
            IN /\ files_closing' = files_closing - Len(closes)
               /\ CloseFileIoId \notin DOMAIN io_results'
               /\ CloseFileTaskId \notin to_notify'
               /\ Len(closes) = Len(cq \o dio_cq)
                    => io_results' = io_results /\ to_notify' = to_notify]_vars

\* C20 witness: a close completion has just been drained and the counter is
\* back at zero.
C20_Witness == pc = "timers" /\ hist.close_drained > 0 /\ files_closing = 0

\* a step of the polled task that puts its own id into the ready set
YieldInserted ==
    /\ pc = "polling" /\ pc' = "polling"
    /\ tasks' = tasks
    /\ to_notify' # to_notify
    /\ to_notify' = to_notify \cup {ctx[1]}

\* C13 (as claimed): yield_if_needed inserts the current task id and makes
\* the yield primitive return Pending only if the clock has exceeded the
\* iteration start plus the budget; otherwise, also at a reading equal to
\* start plus budget, it returns Ready and changes nothing.
C13_YieldWhenExceeded ==
    /\ [](Polling => (YieldNeeded(elapsed) <=> elapsed > PreemptDuration))
    /\ [][YieldInserted => elapsed > PreemptDuration]_vars

\* C13 (amended): yield_if_needed inserts the current task id and makes the
\* yield primitive return Pending if the clock has reached or exceeded the
\* iteration start plus the budget; before that it returns Ready and leaves
\* the ready set as it was; in both cases every other table stays unchanged.
C13_YieldWhenReached ==
    /\ [](Polling =>
           /\ YieldNeeded(elapsed) <=> elapsed >= PreemptDuration
           /\ YieldEffect(to_notify, ctx[1], elapsed)
                = IF elapsed >= PreemptDuration THEN to_notify \cup {ctx[1]}
                  ELSE to_notify)
    /\ [][YieldInserted =>
            /\ elapsed >= PreemptDuration
            /\ UNCHANGED <<ctx, out, ret, taskVars, ioVars, bufRingVars,
                           dioRingVars, notifying, notify_when,
                           num_dio_running, closeVars, elapsed>>]_vars

\* C13 witness: the root, which spawned nothing and queued nothing, is in
\* the ready set while it is polled at a clock reading equal to start plus
\* budget: its yield put it there.
C13_Witness ==
    /\ Polling /\ ctx = <<RootTaskId>>
    /\ elapsed = PreemptDuration
    /\ RootTaskId \in to_notify
    /\ next_task = RootTaskId + 1 /\ next_io = CloseFileIoId + 1
    /\ notify_when.timer = <<>>

\* C12 (as claimed): when run has returned in the yield-loop scenario, the
\* root output is 0 and the loop has performed at least 5 iterations.
C12_FiveIterations == pc = "done" => ret = <<0>> /\ hist.iters >= YieldCount

\* C12 (amended): in the yield-loop scenario run ends (it returns, or panics
\* on a submit error); when it has returned, the root has completed its five
\* awaits, the root output is 0 and the loop has performed at least one
\* iteration: an await of the yield primitive costs an iteration only when
\* it finds the budget used up.
C12_YieldLoop ==
    /\ [](pc = "done" => ret = <<0>> /\ hist.yields = YieldCount /\ hist.iters >= 1)
    /\ <>(pc \in {"done", "panicked"})

\* C12 witness: run has returned 0 after a single iteration of the loop.
C12_Witness == pc = "done" /\ ret = <<0>> /\ hist.iters = 1

\* the drain was left on the budget with b still in the scratch list
LeftOver(b) == pc = "submit" /\ b \in tasks /\ b \in Range(notifying)

\* C14: a task id that was in the snapshot and not yet polled when the drain
\* stopped on the budget is polled in a later iteration (unless run ends
\* first), also when nothing enters the ready set afterwards.
C14_LeftOverPolled ==
    \A b \in 1 .. MaxTasks :
        LeftOver(b) ~> (ctx = <<b>> \/ pc \in {"done", "panicked"})

IsPrefix(a, b) == Len(a) <= Len(b) /\ a = SubSeq(b, 1, Len(a))
IsSuffix(a, b) == Len(a) <= Len(b) /\ a = SubSeq(b, Len(b) - Len(a) + 1, Len(b))

\* try_submit_io on ring r, whatever its submits return: a call that does
\* not panic leaves the entries it did not hand to the kernel in their
\* order, a call in which every submit is busy is among the outcomes, and a
\* later call whose submits succeed hands all of them to the kernel
BusyIsTransient(r, iopoll, force_submit) ==
    LET all == r.s \o r.q
        R == TrySubmitIo(r, iopoll, force_submit)
    IN /\ RingSubmit(r, iopoll, "busy") = r
       /\ RingSubmit(r, iopoll, "err").st = "panic"
       /\ \A r1 \in R :
            r1.st = "run" =>
              /\ IsSuffix(r1.q, r.q)
              /\ IsSuffix(r1.s \o r1.q, all)
              /\ \E r2 \in TrySubmitIo(r1, iopoll, TRUE) :
                   /\ r2.st = "run" /\ r2.q = <<>> /\ r2.s = <<>>
                   /\ r2.fl = r.fl (+) SeqToBag(all)
       /\ \E r1 \in R : r1.st = "run" /\ r1.fl = r.fl /\ r1.s \o r1.q = all

\* C15: in every reachable state of the two rings, a busy error of a submit
\* makes try_submit_io return without a panic with every entry not yet
\* pushed still in the in-memory queue in its original order, a later
\* try_submit_io call submits those entries, and any other submit error is
\* fatal.
C15_BusyIsTransient ==
    Running => \A force_submit \in BOOLEAN :
                 /\ BusyIsTransient(BufRing, FALSE, force_submit)
                 /\ BusyIsTransient(DioRing, TRUE, force_submit)

\* C15 witness: the submit step has returned without a panic on a busy
\* error, with an entry still in the submission region and another still in
\* the in-memory queue.
C15_Witness == pc = "drain" /\ sq # <<>> /\ io_queue # <<>>

\* entries of a ring not yet handed to the kernel, oldest first, before and
\* after a step: they grow at the back, or shrink at the front by exactly
\* what the kernel received
InOrderOnce(s0, q0, fl0, s1, q1, fl1) ==
    LET p0 == s0 \o q0
        p1 == s1 \o q1
    IN /\ Len(s1) <= RingDepth
       /\ p1 # p0 =>
            \/ IsPrefix(p0, p1) /\ s1 = s0 /\ fl1 = fl0
            \/ /\ IsSuffix(p1, p0)
               /\ IsSuffix(q1, q0)
               /\ fl1 = fl0 (+) SeqToBag(SubSeq(p0, 1, Len(p0) - Len(p1)))

\* C16: per ring, entries reach the submission region in the order queue_io
\* (or the close step) appended them to the in-memory queue, and every
\* entry goes from the queue to the region and from the region to the kernel
\* exactly once, across every try_submit_io call, full region and busy
\* error.
C16_FifoOnce ==
    [][pc' # "panicked" =>
         /\ InOrderOnce(sq, io_queue, inflight, sq', io_queue', inflight')
         /\ InOrderOnce(dio_sq, dio_queue, dio_inflight,
                        dio_sq', dio_queue', dio_inflight')]_vars

\* C16 witness: the close entry queued before the I/O intent has gone to the
\* kernel while the intent, queued behind it, is in the submission region.
C16_Witness ==
    /\ sq = <<1>> /\ io_queue = <<>>
    /\ BagIn(CloseFileIoId, inflight)
    /\ hist.close_queued = 1 /\ hist.close_drained = 0

\* ids of tasks whose poll has returned Ready
Removed == DOMAIN hist.child_ret \cup (IF out # <<>> THEN {RootTaskId} ELSE {})

\* C17: in the spawn-and-join scenario a task leaves the task table exactly
\* in the step in which its poll returns Ready (unwinding aside), the task
\* in the context is always in the task table, so that a task is not polled
\* after its removal, a popped id that names a removed task installs no
\* poll, and when run returns 0 both children have left the task table.
C17_RemovedOnReady ==
    /\ [](ctx # <<>> => ctx[1] \in tasks)
    /\ [](Removed \cap tasks = {})
    /\ [](pc = "done" /\ ret = <<0>> =>
            {ChildA, ChildB} \subseteq Removed /\ {ChildA, ChildB} \cap tasks = {})
    /\ [][pc' # "panicked" =>
            /\ tasks' # tasks /\ tasks' \subseteq tasks =>
                 /\ Polling /\ tasks' = tasks \ {ctx[1]}
                 /\ Removed' = Removed \cup {ctx[1]}
            /\ Removed' # Removed =>
                 /\ Polling /\ Removed' = Removed \cup {ctx[1]}
                 /\ tasks' = tasks \ {ctx[1]}
            /\ /\ pc = "pop" /\ notifying # <<>> /\ Last(notifying) \in Removed
               /\ <<pc, ctx, notifying>>' # <<pc, ctx, notifying>>
               => pc' = "pop" /\ ctx' = <<>> /\ notifying' = Front(notifying)]_vars

\* C17 witness: both children have returned Ready and left the task table,
\* and the id about to be popped from the scratch list names one of them.
C17_Witness ==
    /\ pc = "pop" /\ notifying # <<>>
    /\ Last(notifying) \in DOMAIN hist.child_ret
    /\ DOMAIN hist.child_ret = {ChildA, ChildB}

\* the step that pops an id from the scratch list and polls its task
PollStarts == pc = "pop" /\ pc' = "polling"

\* C18: within one loop iteration no task id is polled twice, every id
\* polled is in the snapshot of the ready set taken at the start of the
\* drain, and a task made ready during the iteration is not polled in it.
C18_PolledOnce ==
    [][PollStarts => /\ ctx'[1] \notin hist.polled
                     /\ ctx'[1] \in hist.snapshot]_vars

\* the completions of a sequence that do not carry the reserved close io-id
NotCloseCqe(cqe) == ~IsCloseCqe(cqe)
Drained(cqes) == Range(SelectSeq(cqes, NotCloseCqe))

\* C19: the drain takes the buffered ring's completions before the direct
\* ring's; a drain that does not unwind stores, for every completion that
\* does not carry the close io-id, its result under its io-id and puts the
\* owner of the io-id into the ready set, and stores or wakes nothing else;
\* every stored result is the one the kernel reported for that io-id, and
\* take_io_result returns it.
C19_DrainStoresAndWakes ==
    /\ [](/\ SubSeq(DrainOrder(cq, dio_cq), 1, Len(cq)) = cq
          /\ SubSeq(DrainOrder(cq, dio_cq), Len(cq) + 1, Len(cq) + Len(dio_cq))
               = dio_cq)
    /\ [](\A i \in DOMAIN io_results :
            /\ i \in DOMAIN hist.reported
            /\ io_results[i] = hist.reported[i]
            /\ TakeIoResultOp(io_results, io, i).res = <<hist.reported[i]>>)
    /\ [][pc = "drain" /\ pc' = "timers" =>
            LET got == Drained(cq) \cup Drained(dio_cq)
            IN /\ \A cqe \in got : /\ cqe[1] \in DOMAIN io_results'
                                   /\ io_results'[cqe[1]] = cqe[2]
                                   /\ io[cqe[1]] \in to_notify'
               /\ DOMAIN io_results' = DOMAIN io_results \cup {cqe[1] : cqe \in got}
               /\ to_notify' = to_notify \cup {io[cqe[1]] : cqe \in got}]_vars

\* C19 witness: the drain has just stored the result of a completed
\* operation and its owner, still in the task table, is in the ready set.
C19_Witness ==
    /\ pc = "timers"
    /\ io_results # EmptyMap
    /\ \A i \in DOMAIN io_results :
         i \in DOMAIN hist.owed /\ io[i] \in to_notify /\ io[i] \in tasks

\* the step in which the poll of child c returns Ready
ChildCompletes(c) == c \in DOMAIN hist.child_ret' /\ c \notin DOMAIN hist.child_ret

\* C21: when a child completes after its parent has left the task table,
\* the notification only puts the parent's id into the ready set: the step
\* removes the child alone from the task table and leaves the I/O record
\* table and the result map as they are; when that id is popped no poll is
\* installed and the three tables are unchanged, and the task in the
\* context is always in the task table.
C21_OrphanNotifyNoOp ==
    /\ [](ctx # <<>> => ctx[1] \in tasks)
    /\ [][\A c \in DOMAIN parent :
            (ChildCompletes(c) /\ parent[c] \notin tasks) =>
               /\ tasks' = tasks \ {c}
               /\ to_notify' = to_notify \cup {parent[c]}
               /\ io' = io /\ io_results' = io_results]_vars
    /\ [][(/\ pc = "pop" /\ notifying # <<>>
           /\ Last(notifying) \in Range(parent) \ tasks
           /\ <<pc, ctx, notifying>>' # <<pc, ctx, notifying>>) =>
              /\ pc' = "pop" /\ ctx' = <<>>
              /\ tasks' = tasks /\ io' = io /\ io_results' = io_results]_vars

\* C21 witness: a child has completed after the task that spawned it, itself
\* a spawned task, returned Ready, and the id of that parent, no longer in
\* the task table, is the one about to be popped.
C21_Witness ==
    /\ pc = "pop" /\ notifying # <<>>
    /\ \E c \in DOMAIN hist.child_ret :
         /\ parent[c] # RootTaskId
         /\ parent[c] = Last(notifying)
         /\ parent[c] \in DOMAIN hist.child_ret
         /\ Len(SelectSeq(notifying, LAMBDA x : x = parent[c])) = 1

\* io-ids that are somewhere between queue_io and take_io_result
IdsOutstanding ==
    Range(io_queue) \cup Range(dio_queue) \cup Range(sq) \cup Range(dio_sq)
      \cup BagToSet(inflight) \cup BagToSet(dio_inflight)
      \cup {cqe[1] : cqe \in Range(cq) \cup Range(dio_cq) \cup Range(dio_done)}
      \cup DOMAIN io_results

\* C22: a step that is a queue_io call adds one I/O record, owned by the
\* task being polled, under an io-id that is neither in the I/O record
\* table (the reserved close io-id included) nor carried by anything queued,
\* submitted, completed or stored; it appends that io-id to exactly one of
\* the two in-memory queues, raises the direct counter by one exactly when
\* that is the direct queue, and leaves the rings, the result map, the ready
\* set and the task table as they are.
C22_QueueIoFrame ==
    [][(pc' # "panicked" /\ next_io' # next_io) =>
         \E io_id \in DOMAIN io' :
           /\ io_id \notin DOMAIN io /\ io_id # CloseFileIoId
           /\ io_id \notin IdsOutstanding
           /\ Polling /\ io' = Put(io, io_id, ctx[1])
           /\ \/ /\ io_queue' = Append(io_queue, io_id)
                 /\ dio_queue' = dio_queue
                 /\ num_dio_running' = num_dio_running
              \/ /\ dio_queue' = Append(dio_queue, io_id)
                 /\ io_queue' = io_queue
                 /\ num_dio_running' = num_dio_running + 1
           /\ UNCHANGED <<sq, inflight, cq, dio_sq, dio_inflight, dio_done,
                          dio_cq, io_results, to_notify, tasks, ctx, pc>>]_vars

\* C22 witness: a second intent has been queued, on the direct ring, while
\* the record of the first, which went to the buffered ring, is in the table.
C22_Witness ==
    /\ pc = "polling"
    /\ DOMAIN io = {CloseFileIoId, 1, 2}
    /\ dio_queue = <<2>> /\ num_dio_running = 1
    /\ BagIn(1, inflight)

\* take_io_result(io_id) called in this state returns absent and changes
\* neither the result map nor the I/O record table
TakeAbsent(io_id) ==
    LET t == TakeIoResultOp(io_results, io, io_id)
    IN t.res = <<>> /\ t.io_results = io_results /\ t.io = io

\* take_io_result(io_id) called in this state returns the result reported
\* for io_id and removes the result and the I/O record, after which a second
\* call returns absent
TakeOnce(io_id) ==
    LET t == TakeIoResultOp(io_results, io, io_id)
    IN /\ t.res = <<hist.reported[io_id]>>
       /\ t.io_results = Drop(io_results, io_id)
       /\ t.io = Drop(io, io_id)
       /\ TakeIoResultOp(t.io_results, t.io, io_id).res = <<>>

\* a step of the polled task that takes a result out of the result map
TakesResult == Polling /\ DOMAIN io_results' # DOMAIN io_results /\ pc' = "polling"

\* C23 as stated: while a task is polled, take_io_result returns absent and
\* changes nothing for an io-id whose completion has not been posted by the
\* kernel or the device, and returns the posted result and removes result and
\* record for an io-id whose completion has been posted and not yet taken.
C23_TakePosted ==
    Polling => \A io_id \in IoIdsWide :
                 IF io_id \in DOMAIN hist.reported
                 THEN TakeOnce(io_id) ELSE TakeAbsent(io_id)

\* C23 amended: what decides is whether the completion drain has stored a
\* result for the io-id. While a task is polled, take_io_result returns
\* absent and changes nothing for an io-id with no stored result (nothing
\* posted, posted and not yet drained, or taken already), and for an io-id
\* with a stored result it returns the result the kernel or the device
\* posted and removes result and record; a step that takes a result removes
\* one io-id from both, so a result is returned at most once.
C23_TakeStored ==
    /\ [](Polling => \A io_id \in IoIdsWide :
                       IF io_id \in DOMAIN io_results
                       THEN TakeOnce(io_id) ELSE TakeAbsent(io_id))
    /\ [][TakesResult =>
            \E io_id \in DOMAIN io_results :
              /\ io_results' = Drop(io_results, io_id)
              /\ io' = Drop(io, io_id)
              /\ io_id \notin DOMAIN hist.reported']_vars

\* C23 witness: the polled task has taken the stored result of one io-id,
\* whose record is gone, while the completion of the other io-id is posted
\* on its ring and not yet drained.
C23_Witness ==
    /\ pc = "polling"
    /\ next_io > MaxIoWide
    /\ \E a, b \in IoIdsWide :
         /\ a \notin DOMAIN io /\ a \notin DOMAIN hist.owed
         /\ b \in DOMAIN io /\ b \in DOMAIN hist.reported
         /\ b \notin DOMAIN io_results

\* the direct ring after a step that poked it: the operations the device
\* has finished have all surfaced, or (busy) nothing has
Poked ==
    \/ dio_done' = <<>> /\ dio_cq' = dio_cq \o dio_done
    \/ dio_done' = dio_done /\ dio_cq' = dio_cq

\* the completion of direct operation io_id has just been drained: its
\* result is stored and its owner is in the ready set
DirectDrained(io_id) ==
    pc = "timers" /\ io_id \in DOMAIN io_results /\ io[io_id] \in to_notify

\* C24: while the direct counter is positive, the submit step of every
\* iteration and every idle pass pokes the direct ring, the direct queue
\* being empty or not, and a poke that is not busy surfaces every finished
\* direct operation; with a device that finishes what it holds and a submit
\* that is not busy for ever, every direct intent queued is drained, with
\* its owner put into the ready set, unless run returns or unwinds first.
C24_DirectPoked ==
    /\ [][(/\ num_dio_running > 0 /\ pc' # "panicked"
           /\ \/ pc = "submit" /\ pc' = "drain"
              \/ pc = "idle" /\ pc' = "idle" /\ idle_i' # idle_i) => Poked]_vars
    /\ [](num_dio_running > 0 /\ pc = "submit" =>
            \E r \in TrySubmitIo(DioRing, TRUE, ForceDioSubmit) :
              r.st = "run" /\ r.done = <<>> /\ r.c = dio_cq \o dio_done)
    /\ \A io_id \in IoIdsWide :
         (io_id \in Range(dio_queue))
            ~> (DirectDrained(io_id) \/ pc \in {"done", "panicked"})

\* C24 witness: a direct operation finished by the device has been surfaced
\* by a poke and drained while the direct queue was empty, and another
\* direct operation is still counted.
C24_Witness ==
    /\ pc = "timers" /\ num_dio_running > 0
    /\ dio_queue = <<>> /\ dio_sq = <<>>
    /\ \E io_id \in IoIdsWide : DirectDrained(io_id) /\ io_id \in DOMAIN hist.reported
    /\ hist.dio_drained > 0

\* C25: the idle wait is entered only from a state in which both in-memory
\* queues, both submission regions and both completion queues are empty, the
\* ready set is empty and no File is waiting to be closed, and it makes at
\* most IdleBudget passes before the loop goes on with the iteration.
C25_IdleBounded ==
    /\ [][pc = "top" /\ pc' = "idle" => IdleCond]_vars
    /\ [](pc = "idle" => hist.passes <= IdleBudget)

LeafIds == {hist.leaf_out[i][1] : i \in DOMAIN hist.leaf_out}

LeafQueued == Len(io_queue) + Len(dio_queue)

C27_LeafProtocol ==
    [][pc' # "panicked" =>
         /\ hist.fut = <<>> /\ hist'.fut # <<>> =>
              /\ LeafQueued' = LeafQueued + 1
              /\ hist'.fut = <<SlabInsert(next_io)>>
              /\ io' = Put(io, hist'.fut[1], self_task_id)
              /\ hist'.leaf_out = hist.leaf_out
              /\ pc' = "polling"
         /\ hist.fut # <<>> /\ hist'.fut # hist.fut =>
              /\ hist'.fut = <<>>
              /\ hist'.leaf_out # hist.leaf_out
         /\ hist'.leaf_out # hist.leaf_out =>
              /\ hist.fut # <<>>
              /\ hist.fut[1] \in DOMAIN io_results
              /\ hist.fut[1] \notin DOMAIN io_results'
              /\ hist.fut[1] \notin LeafIds
              /\ LeafQueued' = LeafQueued
              /\ LET r == io_results[hist.fut[1]]
                     o == Last(hist'.leaf_out)
                 IN /\ hist'.leaf_out = Append(hist.leaf_out, o)
                    /\ o[1] = hist.fut[1]
                    /\ o[2].ok = (r >= 0)
                    /\ r < 0 => o[2].v = 0 - r
                    /\ r >= 0 => o[2].v = r]_vars

C27_Witness ==
    /\ Len(hist.leaf_out) = LeafOps
    /\ \E i, j \in DOMAIN hist.leaf_out :
         /\ ~hist.leaf_out[i][2].ok /\ hist.leaf_out[i][2].v = 2
         /\ hist.leaf_out[j][2].ok /\ hist.leaf_out[j][2].v = 1

\* C28: the task put into the ready set when a spawned child completes is
\* the task that was being polled when spawn was called: spawn captures the
\* id in the context, the captured id never changes, the step in which the
\* child returns Ready adds that id and nothing else to the ready set, and a
\* poll of the join handle, by whichever task, leaves the ready set alone.
C28_SpawnerNotified ==
    [][pc' # "panicked" =>
         /\ \A c \in DOMAIN parent' \ DOMAIN parent :
              ctx # <<>> /\ parent'[c] = ctx[1]
         /\ \A c \in DOMAIN parent :
              /\ c \in DOMAIN parent' /\ parent'[c] = parent[c]
              /\ ChildCompletes(c) =>
                   /\ ctx = <<c>>
                   /\ to_notify' = to_notify \cup {parent[c]}
              /\ join_out'[c] # join_out[c] /\ ~ChildCompletes(c) =>
                   to_notify' = to_notify]_vars

\* C28 witness: the value of a child spawned by a task other than the root
\* was taken from its handle by a task that did not spawn it, and the child's
\* completion had put its spawner into the ready set.
C28_Witness ==
    \E c \in DOMAIN hist.join_by :
        /\ parent[c] # RootTaskId
        /\ hist.join_by[c] # parent[c]
        /\ parent[c] \in to_notify

\* a step of the idle wait: a pass, or the break out of it
IdleStep == pc = "idle" /\ pc' # "panicked" /\ (idle_i' # idle_i \/ pc' # "idle")

\* C29: the idle wait polls no task and leaves the task table, the I/O
\* record table, the result map, the in-memory queues, the submission
\* regions, the two counters, the close queue and the scratch list as they
\* are; a pass moves exactly the elapsed deadlines into the ready set and
\* refreshes the view of the two completion queues, without posting or
\* consuming a completion; the wait is left only when a completion is
\* visible on either ring or the ready set is non-empty, and leaving
\* changes nothing.
C29_IdleFrame ==
    /\ [](pc = "idle" => ctx = <<>>)
    /\ [][IdleStep =>
            /\ pc' \in {"idle", "ready"}
            /\ UNCHANGED <<ctx, out, ret, taskVars, ioVars, closeVars>>
            /\ UNCHANGED <<io_queue, dio_queue, sq, dio_sq, inflight, dio_inflight>>
            /\ UNCHANGED <<num_dio_running, notifying, elapsed, cq>>
            /\ dio_cq' \o dio_done' = dio_cq \o dio_done
            /\ pc' = "idle" =>
                 /\ TimersFiredRight
                 /\ cq_seen' = Len(cq)
                 /\ IsPrefix(dio_cq, dio_cq')
            /\ pc' = "ready" =>
                 /\ cq_seen # 0 \/ dio_cq # <<>> \/ to_notify # {}
                 /\ UNCHANGED <<notify_when, to_notify, dio_cq>>]_vars

\* C29 witness: the idle wait is being left on account of a task that a pass
\* of the wait moved from the deadline set into the ready set, while a direct
\* operation is still outstanding.
C29_Witness ==
    /\ pc = "idle" /\ hist.fired
    /\ to_notify # {} /\ cq_seen = 0 /\ dio_cq = <<>>
    /\ num_dio_running > 0

\* C30: the two sequences of the deadline set always have the same length;
\* notify_when appends one (instant, task id) pair made of the instant given
\* and the task being polled and leaves the others in place; a call of
\* notify_timers keeps exactly the pairs that have not elapsed, each with
\* its task id, removes all the elapsed ones and puts their task ids, and
\* nothing else, into the ready set; no other step changes which task id
\* goes with which instant. A pair that was moved is no longer in the set,
\* so it is moved at most once.
C30_DeadlinesAligned ==
    /\ [](Len(notify_when.timer) = Len(notify_when.task_id))
    /\ [][pc' # "panicked" =>
            /\ Len(notify_when'.timer) > Len(notify_when.timer) =>
                 /\ Polling
                 /\ \E when \in WhensWide :
                      Pairs(notify_when') =
                        Append(Pairs(notify_when), <<when, ctx[1]>>)
                 /\ to_notify' = to_notify
            /\ (\/ Len(notify_when'.timer) < Len(notify_when.timer)
                \/ pc = "timers" /\ pc' = "close"
                \/ pc = "idle" /\ pc' = "idle" /\ idle_i' # idle_i) =>
                 TimersFiredRight
            /\ Len(notify_when'.timer) = Len(notify_when.timer) =>
                 /\ notify_when'.task_id = notify_when.task_id
                 /\ \/ notify_when'.timer = notify_when.timer
                    \/ notify_when'.timer = Later(notify_when.timer)]_vars

\* C30 witness: notify_timers has just removed an elapsed pair from a deadline
\* set of three, and the two pairs it kept belong to different tasks and
\* have different instants.
C30_Witness ==
    /\ pc = "close" /\ hist.fired
    /\ Len(notify_when.timer) = MaxTimersWide - 1
    /\ notify_when.task_id[1] # notify_when.task_id[2]
    /\ notify_when.timer[1] # notify_when.timer[2]

====
